---- MODULE Spec2Model ----
(***************************************************************************)
(* Model of the NOEMA Cognee service: CogneeClient (cognee_client.py) and  *)
(* the FastAPI handlers built on it (main.py, schemas.py).                 *)
(*                                                                         *)
(* Scores and weights are fixed-point numbers in tenths (10 is 1.0); a     *)
(* float that is not a number is the separate value NaN, which every       *)
(* ordering comparison answers with FALSE, as IEEE-754 and Python do.      *)
(* A text is a run of n copies of one character, as in "A"*600.            *)
(***************************************************************************)
EXTENDS Integers, Sequences, FiniteSets, TLC

\* ---------------------------------------------------------------- bounds
MaxRaw == 2
MaxGraph == 2
SmallTopK == 2
LongLen == 11
MaxConfigRuns == 3
NumTasks == 3

\* ------------------------------------------------------ program constants
TopKMin == 1
TopKMax == 50
SnippetLimit == 500
ScoreZero == 0
ScoreOne == 10
FallbackStep == 1
DefaultWeight == 5

Min2(a, b) == IF a < b THEN a ELSE b

\* ----------------------------------------------------------------- values
Num(v) == [tag |-> "num", v |-> v]
NaN == [tag |-> "nan", v |-> 0]
NoneValue == [tag |-> "none", v |-> 0]

Text(ch, n) == [ch |-> ch, n |-> n]

\* s[:500]
Truncate(s) == [ch |-> s.ch, n |-> Min2(s.n, SnippetLimit)]

\* Python's a > b and a < b on floats: FALSE whenever an operand is NaN.
PyGt(a, b) == a.tag = "num" /\ b.tag = "num" /\ a.v > b.v
PyLt(a, b) == a.tag = "num" /\ b.tag = "num" /\ a.v < b.v

\* Python's max(a, b) and min(a, b): the first argument unless the second
\* one compares strictly beyond it.
PyMax(a, b) == IF PyGt(b, a) THEN b ELSE a
PyMin(a, b) == IF PyLt(b, a) THEN b ELSE a

\* Comparing None with a float raises TypeError.
ClampRaises(score) == score.tag = "none"

\* min(max(score, 0.0), 1.0)
Clamp(score) == PyMin(PyMax(score, Num(ScoreZero)), Num(ScoreOne))

FallbackNoDecay(i) == Num(ScoreOne)
\* 1.0 - (i * 0.1)
Fallback(i) == Num(ScoreOne - i * FallbackStep)

\* ---------------------------------------------------- raw primary records
RawRec(shape, keys, text, content, repr, score, metadata) ==
    [shape |-> shape, keys |-> keys, text |-> text, content |-> content,
     repr |-> repr, score |-> score, metadata |-> metadata]

NoText == Text("-", 0)

DictAbove == RawRec("dict", {"text", "score", "metadata"}, Text("A", 600), NoText,
                    Text("a", 40), Num(57), "m1")
DictBelow == RawRec("dict", {"content", "score"}, NoText, Text("B", 3),
                    Text("b", 30), Num(-20), "none")
DictNoScore == RawRec("dict", {}, NoText, NoText, Text("c", 2), Num(0), "none")
DictNaN == RawRec("dict", {"text", "score"}, Text("D", 4), NoText,
                  Text("d", 30), NaN, "none")
DictNoneScore == RawRec("dict", {"text", "score"}, Text("E", 5), NoText,
                        Text("e", 30), NoneValue, "none")
PayloadScored == RawRec("payload", {"payload", "score"}, Text("P", 6), NoText,
                        Text("p", 30), Num(9), "none")
PayloadNoScore == RawRec("payload", {"payload"}, Text("Q", 7), NoText,
                         Text("q", 30), Num(0), "none")
Opaque == RawRec("opaque", {}, NoText, NoText, Text("O", 8), Num(0), "none")

RawRecords == {DictAbove, DictBelow, DictNoScore, DictNaN, DictNoneScore,
               PayloadScored, PayloadNoScore, Opaque}

NoScoreRecords == <<DictNoScore, PayloadNoScore, Opaque>>

SeqsUpTo(S, n) == UNION {[1..k -> S] : k \in 0..n}

\* A long answer of records without a score, the three variants in rotation.
LongAnswer(n, k) == [p \in 1..n |-> NoScoreRecords[((p + k) % 3) + 1]]

RawAnswers == SeqsUpTo(RawRecords, MaxRaw)
                \cup {LongAnswer(n, k) : n \in {LongLen, LongLen + 1}, k \in 0..2}

TopKs == {TopKMin, SmallTopK, TopKMax}

\* ------------------------------------------------ per-record extraction
HasScore(r) == "score" \in r.keys

SnippetOf(r) ==
    IF r.shape = "dict"
    THEN IF "text" \in r.keys THEN r.text
         ELSE IF "content" \in r.keys THEN r.content ELSE r.repr
    ELSE IF r.shape = "payload" THEN r.text ELSE r.repr

ScoreOf(r, i) ==
    IF r.shape \in {"dict", "payload"} /\ HasScore(r) THEN r.score ELSE Fallback(i)

MetadataOf(r) ==
    IF r.shape = "dict" /\ "metadata" \in r.keys THEN r.metadata ELSE "empty"

ItemId(i) == "result_" \o ToString(i)

ItemOf(r, i) ==
    [cognee_id |-> ItemId(i),
     snippet |-> Truncate(SnippetOf(r)),
     score |-> Clamp(ScoreOf(r, i)),
     metadata |-> MetadataOf(r)]

ItemRaises(r, i) == ClampRaises(ScoreOf(r, i))

PrependItem(list, it) == <<it>> \o list
\* items.append({...})
AppendItem(list, it) == Append(list, it)

\* ------------------------------------------------------ raw graph records
GraphRec(shape, keys, name, hashable, source, target, relation, weight) ==
    [shape |-> shape, keys |-> keys, name |-> name, hashable |-> hashable,
     source |-> source, target |-> target, relation |-> relation,
     weight |-> weight]

\* An object with a name attribute.
NamedObject == GraphRec("attr", {"name"}, "N1", TRUE, "-", "-", "-", 0)
DictNode == GraphRec("dict", {"name"}, "N1", TRUE, "-", "-", "-", 0)
DictEdge == GraphRec("dict", {"source", "target"}, "-", TRUE, "X", "Y", "-", 0)
DictNodeEdge == GraphRec("dict", {"name", "source", "target", "relation", "weight"},
                         "N2", TRUE, "Y", "X", "causes", 9)
\* A mapping whose name is a list: set.add raises TypeError (unhashable).
DictBadName == GraphRec("dict", {"name", "source", "target"}, "L", FALSE,
                        "X", "Z", "-", 0)
\* Neither a name attribute nor a mapping, e.g. a plain string.
PlainRecord == GraphRec("other", {}, "-", TRUE, "-", "-", "-", 0)

GraphRecords == {NamedObject, DictNode, DictEdge, DictNodeEdge, DictBadName,
                 PlainRecord}

GraphAnswers == SeqsUpTo(GraphRecords, MaxGraph)

EmptyGraph == [nodes |-> {}, edges |-> <<>>]

\* The node a graph record adds to seen_nodes, as a set of zero or one name.
NodesOf(g) ==
    IF g.shape = "attr" THEN {g.name}
    ELSE IF g.shape = "dict" /\ "name" \in g.keys THEN {g.name} ELSE {}

GraphRecordRaises(g) ==
    g.shape = "dict" /\ "name" \in g.keys /\ ~g.hashable

HasEdge(g) == g.shape = "dict" /\ "source" \in g.keys /\ "target" \in g.keys

EdgeOf(g) ==
    [from |-> g.source, to |-> g.target,
     relation |-> IF "relation" \in g.keys THEN g.relation ELSE "related_to",
     weight |-> IF "weight" \in g.keys THEN g.weight ELSE DefaultWeight]

EdgesOf(g) == IF HasEdge(g) THEN <<EdgeOf(g)>> ELSE <<>>

\* ------------------------------------------------------------------ state
VARIABLES
    env,             \* process environment: OPENAI_API_KEY set, data dir usable
    initialized,     \* CogneeClient._initialized
    llm_api_key,     \* cognee.config holds an LLM API key
    data_root,       \* cognee.config.data_root_directory was set
    config_runs,     \* how many times initialize() ran its configuration steps
    evidence_map,    \* CogneeClient._evidence_map
    datasets,        \* dataset names the backend accepted through cognee.add
    last_add,        \* the last ingest request and what became of its cognee.add
    tasks,           \* concurrent requests on the event loop: where each one awaits
    pc,              \* position of the request being served
    top_k,           \* search(): top_k
    search_results,  \* search(): search_results (None and [] are both falsy: <<>>)
    i,               \* search(): index of the next primary record
    items,           \* search(): items
    graph_results,   \* search(): graph_results
    j,               \* search(): index of the next graph record
    seen_nodes,      \* search(): seen_nodes
    graph_context,   \* search(): graph_context
    calls,           \* cognee.search calls issued by this invocation, in order
    err,             \* which except clause of search() ran, and why
    result,          \* what CogneeClient.search returned
    http             \* what the endpoint answered

clientVars == <<env, initialized, llm_api_key, data_root, config_runs, evidence_map,
                datasets, last_add, tasks>>
searchVars == <<top_k, search_results, i, items, graph_results, j, seen_nodes,
                graph_context, calls, err, result>>
vars == <<clientVars, searchVars, pc, http>>

Envs == [api_key : BOOLEAN, dir_ok : BOOLEAN]
DeployedEnv == [api_key |-> TRUE, dir_ok |-> TRUE]

\* None, as distinct from a graph object with empty lists.
NoGraph == [present |-> FALSE, nodes |-> {}, edges |-> <<>>]
NoResult == [items |-> <<>>, graph_context |-> NoGraph]
NoHttp == [kind |-> "none", status |-> 0, items |-> <<>>, graph_context |-> NoGraph,
           cognee_id |-> "", detail |-> "", healthy |-> FALSE, outcome |-> ""]

NoAdd == [evidence_id |-> "", outcome |-> "none", cause |-> ""]

InitLocals ==
    /\ top_k = TopKMin
    /\ search_results = <<>>
    /\ i = 0
    /\ items = <<>>
    /\ graph_results = <<>>
    /\ j = 0
    /\ seen_nodes = {}
    /\ graph_context = EmptyGraph
    /\ calls = <<>>
    /\ err = "none"
    /\ result = NoResult

Tasks == 1..NumTasks
IdleTask == [at |-> "idle", evidence_id |-> ""]

InitClient ==
    /\ initialized = FALSE
    /\ llm_api_key = FALSE
    /\ data_root = FALSE
    /\ config_runs = 0
    /\ evidence_map = <<>>
    /\ datasets = {}
    /\ last_add = NoAdd
    /\ tasks = [t \in Tasks |-> IdleTask]
    /\ pc = "idle"
    /\ http = NoHttp

Init == env = DeployedEnv /\ InitClient /\ InitLocals

\* ------------------------------------------------------------- initialize
\* Path.mkdir or cognee.config raises when the data directory is unusable;
\* an initialized client returns before doing anything.
InitializeUnguarded ==
    /\ llm_api_key' = (llm_api_key \/ env.api_key)
    /\ config_runs' = config_runs + 1
    /\ data_root' = (data_root \/ env.dir_ok)
    /\ initialized' = env.dir_ok

InitializeRaises == ~initialized /\ ~env.dir_ok

\* _configure_llm() runs first, so the key is configured even when the rest
\* of initialize() raises.
Initialize ==
    IF initialized
    THEN UNCHANGED <<initialized, llm_api_key, data_root, config_runs>>
    ELSE /\ llm_api_key' = (llm_api_key \/ env.api_key)
         /\ config_runs' = config_runs + 1
         /\ data_root' = (data_root \/ env.dir_ok)
         /\ initialized' = env.dir_ok

\* ----------------------------------------------------------------- search
\* SearchItem requires 0.0 <= score <= 1.0.
ValidItem(it) == it.score.tag = "num" /\ it.score.v >= ScoreZero /\ it.score.v <= ScoreOne

\* results.get("graph_context") is truthy.
GraphTruthy(gc) == gc.present

SearchOk(res) ==
    [NoHttp EXCEPT !.kind = "search", !.status = 200, !.items = res.items,
                   !.graph_context = IF GraphTruthy(res.graph_context)
                                     THEN res.graph_context ELSE NoGraph]

SearchError == [NoHttp EXCEPT !.kind = "search", !.status = 500,
                              !.detail = "Search failed: validation"]

LimitNoTruncate == Len(search_results)
\* len(search_results[:top_k])
Limit == Min2(Len(search_results), top_k)
\* len(graph_results[:top_k])
GraphLimit == Min2(Len(graph_results), top_k)

\* search(): lines 157-162. Under Init's environment initialize() succeeds.
SearchBegin ==
    /\ pc \in {"idle", "done"}
    /\ ~InitializeRaises
    /\ Initialize
    /\ \E k \in TopKs : top_k' = k
    /\ search_results' = <<>>
    /\ i' = 0
    /\ items' = <<>>
    /\ graph_results' = <<>>
    /\ j' = 0
    /\ seen_nodes' = {}
    /\ graph_context' = EmptyGraph
    /\ calls' = <<>>
    /\ err' = "none"
    /\ result' = NoResult
    /\ http' = NoHttp
    /\ pc' = "primary"
    /\ UNCHANGED <<env, evidence_map, datasets, last_add, tasks>>

PrimaryQueryPropagates ==
    /\ pc = "primary"
    /\ calls' = Append(calls, "INSIGHTS")
    /\ err' = "primary_call"
    /\ http' = SearchError
    /\ pc' = "done"
    /\ UNCHANGED <<clientVars, top_k, search_results, i, items, graph_results, j,
                   seen_nodes, graph_context, result>>

\* cognee.search(SearchType.INSIGHTS, ...) raises: the outer except runs.
PrimaryQueryRaises ==
    /\ pc = "primary"
    /\ calls' = Append(calls, "INSIGHTS")
    /\ err' = "primary_call"
    /\ pc' = "return"
    /\ UNCHANGED <<clientVars, top_k, search_results, i, items, graph_results, j,
                   seen_nodes, graph_context, result, http>>

PrimaryQueryReturns ==
    /\ pc = "primary"
    /\ calls' = Append(calls, "INSIGHTS")
    /\ \E R \in RawAnswers : search_results' = R
    /\ pc' = "loop"
    /\ UNCHANGED <<clientVars, top_k, i, items, graph_results, j, seen_nodes,
                   graph_context, err, result, http>>

ProcessRecordSkipsFailure ==
    /\ pc = "loop"
    /\ i < Limit
    /\ LET r == search_results[i + 1] IN
         IF ItemRaises(r, i)
         THEN /\ err' = "primary_record"
              /\ i' = i + 1
              /\ UNCHANGED <<items, pc>>
         ELSE /\ items' = AppendItem(items, ItemOf(r, i))
              /\ i' = i + 1
              /\ UNCHANGED <<err, pc>>
    /\ UNCHANGED <<clientVars, top_k, search_results, graph_results, j, seen_nodes,
                   graph_context, calls, result, http>>

\* One iteration of the loop over search_results[:top_k]; an exception in it
\* leaves the loop for the outer except, with the items appended so far.
ProcessRecord ==
    /\ pc = "loop"
    /\ i < Limit
    /\ LET r == search_results[i + 1] IN
         IF ItemRaises(r, i)
         THEN /\ err' = "primary_record"
              /\ pc' = "return"
              /\ UNCHANGED <<i, items>>
         ELSE /\ items' = AppendItem(items, ItemOf(r, i))
              /\ i' = i + 1
              /\ UNCHANGED <<err, pc>>
    /\ UNCHANGED <<clientVars, top_k, search_results, graph_results, j, seen_nodes,
                   graph_context, calls, result, http>>

\* The loop is over; cognee.search(SearchType.GRAPH_COMPLETION, ...) raises and
\* the inner except runs.
GraphQueryRaises ==
    /\ pc = "loop"
    /\ i = Limit
    /\ calls' = Append(calls, "GRAPH_COMPLETION")
    /\ err' = "graph_call"
    /\ pc' = "return"
    /\ UNCHANGED <<clientVars, top_k, search_results, i, items, graph_results, j,
                   seen_nodes, graph_context, result, http>>

GraphQueryReturns ==
    /\ pc = "loop"
    /\ i = Limit
    /\ calls' = Append(calls, "GRAPH_COMPLETION")
    /\ \E G \in GraphAnswers : graph_results' = G
    /\ j' = 0
    /\ seen_nodes' = {}
    /\ pc' = "gloop"
    /\ UNCHANGED <<clientVars, top_k, search_results, i, items, graph_context, err,
                   result, http>>

\* One iteration of the loop over graph_results[:top_k]. Edges go straight
\* into graph_context["edges"]; names are gathered in seen_nodes.
ProcessGraphRecord ==
    /\ pc = "gloop"
    /\ j < GraphLimit
    /\ LET g == graph_results[j + 1] IN
         IF GraphRecordRaises(g)
         THEN /\ err' = "graph_record"
              /\ pc' = "return"
              /\ UNCHANGED <<j, seen_nodes, graph_context>>
         ELSE /\ seen_nodes' = seen_nodes \cup NodesOf(g)
              /\ graph_context' =
                    [graph_context EXCEPT !.edges = graph_context.edges \o EdgesOf(g)]
              /\ j' = j + 1
              /\ UNCHANGED <<err, pc>>
    /\ UNCHANGED <<clientVars, top_k, search_results, i, items, graph_results, calls,
                   result, http>>

\* graph_context["nodes"] = list(seen_nodes), skipped when graph_results is falsy.
GraphDone ==
    /\ pc = "gloop"
    /\ j = GraphLimit
    /\ graph_context' =
          IF Len(graph_results) > 0
          THEN [graph_context EXCEPT !.nodes = seen_nodes]
          ELSE graph_context
    /\ pc' = "return"
    /\ UNCHANGED <<clientVars, top_k, search_results, i, items, graph_results, j,
                   seen_nodes, calls, err, result, http>>

ReturnedGraphAlways(gc) == [present |-> TRUE, nodes |-> gc.nodes, edges |-> gc.edges]
\* graph_context if graph_context["nodes"] or graph_context["edges"] else None
ReturnedGraph(gc) ==
    IF gc.nodes # {} \/ gc.edges # <<>>
    THEN [present |-> TRUE, nodes |-> gc.nodes, edges |-> gc.edges]
    ELSE NoGraph

\* search(): lines 231-234.
SearchReturn ==
    /\ pc = "return"
    /\ result' = [items |-> items, graph_context |-> ReturnedGraph(graph_context)]
    /\ pc' = "respond"
    /\ UNCHANGED <<clientVars, top_k, search_results, i, items, graph_results, j,
                   seen_nodes, graph_context, calls, err, http>>

\* search_memory(): lines 208-241. Whether the schema's bounds reject a NaN
\* score is decided by the installed validation library, so both happen.
SearchRespond ==
    /\ pc = "respond"
    /\ \/ /\ \A n \in 1..Len(result.items) :
                ValidItem(result.items[n]) \/ result.items[n].score.tag = "nan"
          /\ http' = SearchOk(result)
       \/ /\ \E n \in 1..Len(result.items) : ~ValidItem(result.items[n])
          /\ http' = SearchError
    /\ pc' = "done"
    /\ UNCHANGED <<clientVars, searchVars>>

Next ==
    \/ SearchBegin
    \/ PrimaryQueryRaises
    \/ PrimaryQueryReturns
    \/ ProcessRecord
    \/ GraphQueryRaises
    \/ GraphQueryReturns
    \/ ProcessGraphRecord
    \/ GraphDone
    \/ SearchReturn
    \/ SearchRespond

Spec == Init /\ [][Next]_vars

\* ------------------------------------------- ingest, cognify, health check
EvidenceIds == {"ev1", "ev2"}
Causes == {"backend unreachable", "api key rejected"}
InitCause == "data directory unusable"

\* initialize() may start only while the counter of its runs is under the cap.
MayInitialize == initialized \/ config_runs < MaxConfigRuns

\* f"cognee_{evidence_id}"
CogneeId(evidence_id) == "cognee_" \o evidence_id

Remember(m, evidence_id, cognee_id) ==
    [e \in (DOMAIN m) \cup {evidence_id} |->
        IF e = evidence_id THEN cognee_id ELSE m[e]]

IngestOk(cognee_id) ==
    [NoHttp EXCEPT !.kind = "ingest", !.status = 200, !.cognee_id = cognee_id]

IngestError(cause) ==
    [NoHttp EXCEPT !.kind = "ingest", !.status = 500,
                   !.detail = "Ingest failed: " \o cause]

\* lifespan(): the service initializes the client before serving.
Startup ==
    /\ pc = "idle"
    /\ MayInitialize
    /\ Initialize
    /\ pc' = IF InitializeRaises THEN "startup_failed" ELSE "serving"
    /\ UNCHANGED <<env, evidence_map, datasets, last_add, tasks, searchVars, http>>

\* f"evidence_{evidence_id}"
DatasetName(evidence_id) == "evidence_" \o evidence_id

Added(evidence_id, outcome, cause) ==
    [evidence_id |-> evidence_id, outcome |-> outcome, cause |-> cause]

IngestSwallowsFailure ==
    /\ pc \in {"idle", "serving"}
    /\ MayInitialize
    /\ Initialize
    /\ \E evidence_id \in EvidenceIds :
         IF InitializeRaises
         THEN /\ http' = IngestError(InitCause)
              /\ last_add' = Added(evidence_id, "not_called", InitCause)
              /\ UNCHANGED <<evidence_map, datasets>>
         ELSE \/ \E cause \in Causes :
                    /\ evidence_map' =
                          Remember(evidence_map, evidence_id, CogneeId(evidence_id))
                    /\ http' = IngestOk(evidence_map'[evidence_id])
                    /\ last_add' = Added(evidence_id, "raised", cause)
                    /\ UNCHANGED datasets
              \/ /\ datasets' = datasets \cup {DatasetName(evidence_id)}
                 /\ evidence_map' =
                       Remember(evidence_map, evidence_id, CogneeId(evidence_id))
                 /\ http' = IngestOk(evidence_map'[evidence_id])
                 /\ last_add' = Added(evidence_id, "accepted", "")
    /\ UNCHANGED <<env, pc, tasks, searchVars>>

\* ingest_evidence() over CogneeClient.ingest(): initialize() or cognee.add()
\* raising reaches the handler's except clause.
Ingest ==
    /\ pc \in {"idle", "serving"}
    /\ MayInitialize
    /\ Initialize
    /\ \E evidence_id \in EvidenceIds :
         IF InitializeRaises
         THEN /\ http' = IngestError(InitCause)
              /\ last_add' = Added(evidence_id, "not_called", InitCause)
              /\ UNCHANGED <<evidence_map, datasets>>
         ELSE \/ \E cause \in Causes :
                    /\ http' = IngestError(cause)
                    /\ last_add' = Added(evidence_id, "raised", cause)
                    /\ UNCHANGED <<evidence_map, datasets>>
              \/ /\ datasets' = datasets \cup {DatasetName(evidence_id)}
                 /\ evidence_map' =
                       Remember(evidence_map, evidence_id, CogneeId(evidence_id))
                 /\ http' = IngestOk(evidence_map'[evidence_id])
                 /\ last_add' = Added(evidence_id, "accepted", "")
    /\ UNCHANGED <<env, pc, tasks, searchVars>>

CognifyAnswer(outcome, message) ==
    [NoHttp EXCEPT !.kind = "cognify", !.status = 200, !.outcome = outcome,
                   !.detail = message]

\* run_cognify() over CogneeClient.cognify().
Cognify ==
    /\ pc \in {"idle", "serving"}
    /\ MayInitialize
    /\ Initialize
    /\ IF InitializeRaises
       THEN http' = CognifyAnswer("error", InitCause)
       ELSE \/ \E cause \in Causes : http' = CognifyAnswer("error", cause)
            \/ http' = CognifyAnswer("completed", "")
    /\ UNCHANGED <<env, pc, evidence_map, datasets, last_add, tasks, searchVars>>

\* CogneeClient.health_check(): True unless initialize() raised.
HealthResult == ~InitializeRaises

HealthAnswer(is_healthy) ==
    [NoHttp EXCEPT !.kind = "health", !.status = 200, !.healthy = is_healthy,
                   !.outcome = IF is_healthy THEN "ok" ELSE "error",
                   !.detail = IF is_healthy THEN ""
                              ELSE "Cognee initialization failed"]

\* health_check() endpoint over CogneeClient.health_check().
HealthCheck ==
    /\ pc \in {"idle", "serving"}
    /\ MayInitialize
    /\ Initialize
    /\ http' = HealthAnswer(HealthResult)
    /\ UNCHANGED <<env, pc, evidence_map, datasets, last_add, tasks, searchVars>>

InitService == env \in Envs /\ InitClient /\ InitLocals

NextService ==
    \/ Startup
    \/ Ingest
    \/ Cognify
    \/ HealthCheck

SpecService == InitService /\ [][NextService]_vars

\* ------------------------------------------ concurrent requests, one client
\* Handlers are coroutines on one event loop: a request runs without
\* interruption up to its next await of a backend call. initialize() holds no
\* await, so a request runs it, whole, in the step that starts the request.
Awaiting(t, at, evidence_id) ==
    [tasks EXCEPT ![t] = [at |-> at, evidence_id |-> evidence_id]]

Finished(t) == [tasks EXCEPT ![t] = IdleTask]

\* lifespan() and health_check(): initialize() and nothing else.
TaskInitializeOnly(t) ==
    /\ tasks[t].at = "idle"
    /\ MayInitialize
    /\ Initialize
    /\ tasks' = Finished(t)
    /\ UNCHANGED <<env, evidence_map, datasets, last_add, searchVars, pc, http>>

\* ingest(), cognify() and search() up to their first cognee call; an
\* exception of initialize() ends the request before that call.
TaskBegin(t) ==
    /\ tasks[t].at = "idle"
    /\ MayInitialize
    /\ Initialize
    /\ IF InitializeRaises
       THEN tasks' = Finished(t)
       ELSE \/ \E evidence_id \in EvidenceIds : tasks' = Awaiting(t, "add", evidence_id)
            \/ tasks' = Awaiting(t, "cognify", "")
            \/ tasks' = Awaiting(t, "INSIGHTS", "")
    /\ UNCHANGED <<env, evidence_map, datasets, last_add, searchVars, pc, http>>

\* await cognee.add(...) completes: ingest() records the id, or the exception
\* leaves ingest().
TaskAddEnds(t) ==
    /\ tasks[t].at = "add"
    /\ LET evidence_id == tasks[t].evidence_id IN
         \/ /\ datasets' = datasets \cup {DatasetName(evidence_id)}
            /\ evidence_map' =
                  Remember(evidence_map, evidence_id, CogneeId(evidence_id))
         \/ UNCHANGED <<evidence_map, datasets>>
    /\ tasks' = Finished(t)
    /\ UNCHANGED <<env, initialized, llm_api_key, data_root, config_runs, last_add,
                   searchVars, pc, http>>

\* await cognee.cognify() completes, either way.
TaskCognifyEnds(t) ==
    /\ tasks[t].at = "cognify"
    /\ tasks' = Finished(t)
    /\ UNCHANGED <<env, initialized, llm_api_key, data_root, config_runs,
                   evidence_map, datasets, last_add, searchVars, pc, http>>

\* await cognee.search(SearchType.INSIGHTS, ...) completes: search() goes on to
\* the graph query, or to its outer except when the call or a record raised.
TaskPrimaryEnds(t) ==
    /\ tasks[t].at = "INSIGHTS"
    /\ \/ tasks' = Awaiting(t, "GRAPH_COMPLETION", "")
       \/ tasks' = Finished(t)
    /\ UNCHANGED <<env, initialized, llm_api_key, data_root, config_runs,
                   evidence_map, datasets, last_add, searchVars, pc, http>>

\* await cognee.search(SearchType.GRAPH_COMPLETION, ...) completes, either way.
TaskGraphEnds(t) ==
    /\ tasks[t].at = "GRAPH_COMPLETION"
    /\ tasks' = Finished(t)
    /\ UNCHANGED <<env, initialized, llm_api_key, data_root, config_runs,
                   evidence_map, datasets, last_add, searchVars, pc, http>>

InitConcurrent == env \in Envs /\ InitClient /\ InitLocals

NextConcurrent ==
    \E t \in Tasks :
        \/ TaskInitializeOnly(t)
        \/ TaskBegin(t)
        \/ TaskAddEnds(t)
        \/ TaskCognifyEnds(t)
        \/ TaskPrimaryEnds(t)
        \/ TaskGraphEnds(t)

SpecConcurrent == InitConcurrent /\ [][NextConcurrent]_vars

\* ================================================================ claims
Returned == pc \in {"respond", "done"}
Answered == pc = "done" /\ http.kind = "search"
InUnit(score) == score.tag = "num" /\ score.v >= 0 /\ score.v <= 10
GraphCalls == {n \in 1..Len(calls) : calls[n] = "GRAPH_COMPLETION"}

\* C1: the item list search returns is never longer than min(len(R), topK),
\* whatever the records are and whether or not a step failed; the endpoint's
\* item list is no longer either.
C1_LengthBounded ==
    /\ Len(items) <= Len(search_results)
    /\ Len(items) <= top_k
    /\ Returned => /\ Len(result.items) <= Len(search_results)
                   /\ Len(result.items) <= top_k
    /\ Answered => /\ Len(http.items) <= Len(search_results)
                   /\ Len(http.items) <= top_k

C1_Witness ==
    /\ Answered
    /\ Len(search_results) > top_k
    /\ Len(result.items) = top_k
    /\ http.status = 200

\* C2: every item of every search response has a score within [0.0, 1.0],
\* whatever the upstream score and the record variant.
C2_ScoreInUnitInterval ==
    Returned => \A n \in 1..Len(result.items) : InUnit(result.items[n].score)

\* C3: when the primary backend search call raises, search returns no items
\* and no graph, and the caller gets a normal (200) empty response.
C3_PrimaryFailureIsEmptyResponse ==
    err = "primary_call" =>
        /\ pc \in {"return", "respond", "done"}
        /\ Returned => result.items = <<>> /\ ~result.graph_context.present
        /\ pc = "done" => /\ http.status = 200
                          /\ http.items = <<>>
                          /\ ~http.graph_context.present

C3_Witness == pc = "done" /\ err = "primary_call" /\ http.kind = "search"

\* C4: when the graph query fails, either in the backend call or while one of
\* its records is processed, search returns graph = null together with the
\* complete primary item list.
C4_GraphFailureGivesNullGraph ==
    (Returned /\ err \in {"graph_call", "graph_record"}) =>
        /\ ~result.graph_context.present
        /\ Len(result.items) = Min2(Len(search_results), top_k)

C6_IngestNeverSilentlyDrops ==
    /\ http.kind = "ingest" =>
          IF last_add.outcome = "accepted"
          THEN /\ http.status = 200
               /\ http.cognee_id = "cognee_" \o last_add.evidence_id
               /\ ("evidence_" \o last_add.evidence_id) \in datasets
          ELSE /\ http.status = 500
               /\ http.cognee_id = ""
               /\ last_add.cause # ""
               /\ http.detail = "Ingest failed: " \o last_add.cause
    /\ \A e \in DOMAIN evidence_map :
          /\ evidence_map[e] = "cognee_" \o e
          /\ ("evidence_" \o e) \in datasets

C6_Witness ==
    /\ http.kind = "ingest"
    /\ http.status = 500
    /\ last_add.outcome = "raised"
    /\ DOMAIN evidence_map # {}

\* C7: the health check answers true exactly when the backend is operational:
\* false when the credentials are missing or the data directory is unusable.
C7_HealthReflectsBackend ==
    http.kind = "health" => (http.healthy <=> (env.api_key /\ env.dir_ok))

\* C8: item n of the returned list is built from raw record n of the backend's
\* answer and carries the id "result_" + n (0-based), in upstream order.
C8_UpstreamOrderKept ==
    Returned =>
        \A n \in 1..Len(result.items) :
            /\ n <= Len(search_results)
            /\ result.items[n].cognee_id = "result_" \o ToString(n - 1)
            /\ result.items[n].snippet.ch = SnippetOf(search_results[n]).ch
            /\ result.items[n].metadata = MetadataOf(search_results[n])

C8_Witness ==
    /\ Answered
    /\ Len(result.items) >= 2
    /\ PyLt(result.items[1].score, result.items[2].score)

\* C9: an item built from a record without an upstream score at 0-based
\* position p scores 1.0 - 0.1*p, and 0.0 from position 10 on (in tenths).
C9_FallbackScore ==
    Returned =>
        \A n \in 1..Len(result.items) :
            ~HasScore(search_results[n]) =>
                result.items[n].score =
                    [tag |-> "num", v |-> IF n - 1 >= 10 THEN 0 ELSE 10 - (n - 1)]

C9_Witness ==
    /\ Answered
    /\ Len(result.items) >= 12
    /\ result.items[3].score = [tag |-> "num", v |-> 8]
    /\ result.items[11].score = [tag |-> "num", v |-> 0]
    /\ result.items[12].score = [tag |-> "num", v |-> 0]

\* C10: the graph query is issued at most once, only after the primary query
\* returned and every one of its first topK records was processed; after a
\* primary failure it is not issued and the returned graph is null.
C10_GraphAfterPrimary ==
    /\ Cardinality(GraphCalls) <= 1
    /\ GraphCalls # {} =>
          /\ calls = <<"INSIGHTS", "GRAPH_COMPLETION">>
          /\ Len(items) = Min2(Len(search_results), top_k)
          /\ err \notin {"primary_call", "primary_record"}
    /\ err \in {"primary_call", "primary_record"} =>
          /\ GraphCalls = {}
          /\ graph_results = <<>>
          /\ Returned => ~result.graph_context.present

C10_Witness ==
    /\ Answered
    /\ err = "primary_record"
    /\ Len(result.items) >= 1
    /\ calls = <<"INSIGHTS">>

\* C11: once initialize() has completed, its configuration steps never run
\* again and the flag stays set, however ingest, cognify, search and
\* health_check requests interleave; and no request awaits a backend call
\* before initialization has completed.
C11_InitializeOnce ==
    /\ [][initialized => (initialized' /\ config_runs' = config_runs
                                       /\ llm_api_key' = llm_api_key
                                       /\ data_root' = data_root)]_vars
    /\ [](\A t \in Tasks :
             tasks[t].at \in {"add", "cognify", "INSIGHTS", "GRAPH_COMPLETION"}
                => (initialized /\ data_root /\ config_runs >= 1))

C11_Witness ==
    /\ initialized
    /\ config_runs = 1
    /\ DOMAIN evidence_map # {}
    /\ \E t, u \in Tasks :
          /\ t # u
          /\ tasks[t].at = "add"
          /\ tasks[u].at = "GRAPH_COMPLETION"

====
